---- MODULE Spec2Model ----
(***************************************************************************)
(* Report lifecycle of the numerology bot: the purchase-confirmation       *)
(* handler, the direct (PRO) generation paths, the Mini App generate and   *)
(* delete endpoints, the name_selection collection flow, the generation    *)
(* lock and the report store, all on top of two key-value tables.          *)
(*                                                                         *)
(* Every handler invocation is one run on a worker (a Lambda instance).    *)
(* A run advances one table access (or one external call) per step, so     *)
(* the steps of concurrent invocations interleave freely.                  *)
(***************************************************************************)
EXTENDS Naturals, Integers, Sequences, FiniteSets, TLC

VARIABLES
    users_table,    \* numerolog-users: telegram_id -> Optional(user item)
    reports_table,  \* numerolog-reports: <<telegram_id, SK>> -> item
    fsm,            \* aiogram FSMContext per chat: Optional([state, data])
    runs,           \* per worker: the handler invocation it executes
    now,            \* datetime.utcnow(), in seconds
    ticks,          \* number of clock advances so far
    starts          \* number of handler invocations so far

vars == <<users_table, reports_table, fsm, runs, now, ticks, starts>>

----------------------------------------------------------------------------
(* Bounds of the model *)

MaxStarts == 2
MaxTicks == 1
MaxCalls == 3

Workers == {"w1", "w2"}
Users == {1, 2}
InstanceIds == {"id_a", "id_b"}

(* Program constants *)

LOCK_TTL == 120
TickSteps == {LOCK_TTL, LOCK_TTL + 1}

----------------------------------------------------------------------------
(* Python values: Optional[x] is <<>> (None) or <<x>>; a dict is a set of  *)
(* <<key, value>> pairs with distinct keys.                                *)

None == <<>>
Some(x) == <<x>>
IsNone(o) == o = <<>>
Val(o) == o[1]

EmptyDict == {}
DictKeys(d) == {kv[1] : kv \in d}
DictGet(d, k, default) ==
    IF k \in DictKeys(d) THEN (CHOOSE kv \in d : kv[1] = k)[2] ELSE default
DictSet(d, k, v) == {kv \in d : kv[1] # k} \cup {<<k, v>>}
Truthy(o) == ~IsNone(o) /\ Val(o) # EmptyDict

----------------------------------------------------------------------------
(* Report catalogs *)

REPORT_INFO ==
    [ full_portrait     |-> [requires_input |-> FALSE, multi_instance |-> FALSE],
      financial_code    |-> [requires_input |-> FALSE, multi_instance |-> FALSE],
      date_calendar     |-> [requires_input |-> TRUE,  multi_instance |-> TRUE],
      year_forecast     |-> [requires_input |-> TRUE,  multi_instance |-> TRUE],
      name_selection    |-> [requires_input |-> TRUE,  multi_instance |-> TRUE],
      compatibility_pro |-> [requires_input |-> TRUE,  multi_instance |-> TRUE] ]

AVAILABLE_REPORTS ==
    [ full_portrait     |-> [requires_input |-> FALSE, multi_instance |-> FALSE],
      financial_code    |-> [requires_input |-> FALSE, multi_instance |-> FALSE],
      date_calendar     |-> [requires_input |-> TRUE,  multi_instance |-> TRUE],
      year_forecast     |-> [requires_input |-> TRUE,  multi_instance |-> TRUE],
      name_selection    |-> [requires_input |-> TRUE,  multi_instance |-> TRUE],
      compatibility_pro |-> [requires_input |-> TRUE,  multi_instance |-> TRUE] ]

MULTI_INSTANCE_REPORTS ==
    {"compatibility_pro", "name_selection", "year_forecast", "date_calendar"}

(* REPORT_INFO.get(report_id, {}) and the .get(flag, False) on it *)
InfoFlag(catalog, report_id, flag) ==
    IF report_id \in DOMAIN catalog THEN catalog[report_id][flag] ELSE FALSE

----------------------------------------------------------------------------
(* DynamoDB tables. An item of the reports table is addressed by            *)
(* PK = USER#<telegram_id> and a sort key; the sort key "A#B#C" is the      *)
(* tuple of its '#'-separated segments.                                     *)

EmptyTable == [k \in {} |-> None]
get_item(table, key) == IF key \in DOMAIN table THEN Some(table[key]) ELSE None
put_item(table, key, item) ==
    [k \in DOMAIN table \cup {key} |-> IF k = key THEN item ELSE table[k]]
delete_item(table, key) == [k \in DOMAIN table \ {key} |-> table[k]]

SK_REPORT(report_type) == <<"REPORT", report_type>>
SK_INSTANCE(report_type, instance_id) == <<"REPORT", report_type, instance_id>>
SK_PENDING(report_id) == <<"PENDING", report_id>>
(* A lock key without the report type: f"LOCK" *)
SK_LOCK_PerUser(report_id) == <<"LOCK">>

SK_LOCK(report_id) == <<"LOCK", report_id>>
SK_COMPAT(result_id) == <<"COMPAT", result_id>>

(* The text of a sort key as the f-strings build it: the segments joined   *)
(* by "#". A segment (a tag, a report type, a uuid prefix) holds no "#"    *)
(* and is one symbol of the text.                                          *)
RECURSIVE SKText(_)
SKText(sk) ==
    IF Len(sk) = 0 THEN <<>>
    ELSE IF Len(sk) = 1 THEN <<sk[1]>>
    ELSE <<sk[1], "#">> \o SKText(Tail(sk))

(* str.startswith, the comparison DynamoDB's begins_with makes *)
BeginsWith(text, prefix) ==
    Len(text) >= Len(prefix) /\ SubSeq(text, 1, Len(prefix)) = prefix

(* A prefix without the closing separator: f"REPORT#{report_type}" *)
BeginsWithReportPrefix_NoSeparator(sk, report_type) ==
    BeginsWith(SKText(sk), <<"REPORT", "#", report_type>>)

(* Key("SK").begins_with(f"REPORT#{report_type}#") *)
BeginsWithReportPrefix(sk, report_type) ==
    BeginsWith(SKText(sk), <<"REPORT", "#", report_type, "#">>)

----------------------------------------------------------------------------
(* User aggregate *)

SUBSCRIPTION_SECONDS == 2592000

NewUser ==
    [ onboarded            |-> TRUE,
      subscription_type    |-> "free",
      subscription_expires |-> None,
      referrals_count      |-> 0,
      purchased_reports    |-> <<>>,
      payment_history      |-> <<>> ]

InSeq(x, seq) == \E i \in 1..Len(seq) : seq[i] = x

is_premium(user, at) ==
    IF user.subscription_type = "free" THEN FALSE
    ELSE IF IsNone(user.subscription_expires) THEN FALSE
    ELSE at < Val(user.subscription_expires)

(* An access test that lets every user through *)
IsPro_Everyone(user, at) == TRUE

IsPro(user, at) == user.subscription_type = "pro" /\ is_premium(user, at)

(* DatabaseService.update_user: the whole item is written *)
update_user(ut, telegram_id, user) == [ut EXCEPT ![telegram_id] = Some(user)]

add_payment_user(user, payment_type) ==
    [user EXCEPT !.payment_history = Append(@, payment_type)]

add_purchased_report_user(user, report_type) ==
    IF ~InSeq(report_type, user.purchased_reports)
    THEN [user EXCEPT !.purchased_reports = Append(@, report_type)]
    ELSE user

activate_subscription_user(user, subscription_type, at) ==
    [user EXCEPT !.subscription_type = subscription_type,
                 !.subscription_expires = Some(at + SUBSCRIPTION_SECONDS)]

----------------------------------------------------------------------------
(* Report store *)

(* A save that keeps the record a type already has *)
save_report_KeepFirst(rt, telegram_id, report_type, content, at) ==
    IF <<telegram_id, SK_REPORT(report_type)>> \in DOMAIN rt THEN rt
    ELSE put_item(rt, <<telegram_id, SK_REPORT(report_type)>>,
                  [content |-> content, created_at |-> at])

save_report(rt, telegram_id, report_type, content, at) ==
    put_item(rt, <<telegram_id, SK_REPORT(report_type)>>,
             [content |-> content, created_at |-> at])

(* A save that stores the instance without its input context *)
save_report_instance_NoContext(rt, telegram_id, report_type, instance_id, content, context, at) ==
    put_item(rt, <<telegram_id, SK_INSTANCE(report_type, instance_id)>>,
             [ report_type |-> report_type,
               instance_id |-> instance_id,
               content     |-> content,
               context     |-> EmptyDict,
               created_at  |-> at ])

save_report_instance(rt, telegram_id, report_type, instance_id, content, context, at) ==
    put_item(rt, <<telegram_id, SK_INSTANCE(report_type, instance_id)>>,
             [ report_type |-> report_type,
               instance_id |-> instance_id,
               content     |-> content,
               context     |-> context,
               created_at  |-> at ])

(* get_report_instance: the full record or None *)
get_report_instance(rt, telegram_id, report_type, instance_id) ==
    LET item == get_item(rt, <<telegram_id, SK_INSTANCE(report_type, instance_id)>>)
    IN  IF IsNone(item) THEN None
        ELSE Some([ instance_id |-> Val(item).instance_id,
                    content     |-> Val(item).content,
                    context     |-> Val(item).context,
                    created_at  |-> Val(item).created_at ])

(* The keys the prefix query selects *)
QueryKeys(rt, telegram_id, report_type) ==
    {q \in DOMAIN rt : q[1] = telegram_id /\ BeginsWithReportPrefix(q[2], report_type)}

(* The items the prefix query returns *)
QueryInstances(rt, telegram_id, report_type) ==
    {rt[k] : k \in QueryKeys(rt, telegram_id, report_type)}

get_report_instance_count(rt, telegram_id, report_type) ==
    Cardinality(QueryKeys(rt, telegram_id, report_type))

(* Order of the ids in the sort key, which is the order the query returns *)
IdRank(instance_id) == IF instance_id = "id_a" THEN 1 ELSE 2

(* A listing sorted without reverse=True: oldest first *)
RECURSIVE SortOldestFirst(_)
SortOldestFirst(items) ==
    IF items = {} THEN <<>>
    ELSE LET first == CHOOSE x \in items :
                        \A y \in items :
                            \/ x.created_at < y.created_at
                            \/ /\ x.created_at = y.created_at
                               /\ IdRank(x.instance_id) <= IdRank(y.instance_id)
         IN  <<[ instance_id |-> first.instance_id,
                 context     |-> first.context,
                 created_at  |-> first.created_at ]>>
             \o SortOldestFirst(items \ {first})

(* Stable sort by created_at, newest first *)
RECURSIVE SortNewestFirst(_)
SortNewestFirst(items) ==
    IF items = {} THEN <<>>
    ELSE LET first == CHOOSE x \in items :
                        \A y \in items :
                            \/ x.created_at > y.created_at
                            \/ /\ x.created_at = y.created_at
                               /\ IdRank(x.instance_id) <= IdRank(y.instance_id)
         IN  <<[ instance_id |-> first.instance_id,
                 context     |-> first.context,
                 created_at  |-> first.created_at ]>>
             \o SortNewestFirst(items \ {first})

get_report_instances(rt, telegram_id, report_type) ==
    SortNewestFirst(QueryInstances(rt, telegram_id, report_type))

(* get_report: content of the single record, or of the newest instance *)
get_report(rt, telegram_id, report_type) ==
    IF report_type \in MULTI_INSTANCE_REPORTS
    THEN LET instances == get_report_instances(rt, telegram_id, report_type)
         IN  IF instances # <<>>
             THEN LET inst == get_report_instance(rt, telegram_id, report_type,
                                                  instances[1].instance_id)
                  IN  IF IsNone(inst) THEN None ELSE Some(Val(inst).content)
             ELSE None
    ELSE LET item == get_item(rt, <<telegram_id, SK_REPORT(report_type)>>)
         IN  IF IsNone(item) THEN None ELSE Some(Val(item).content)

(* A delete that removes every instance of the type *)
delete_report_instance_AllOfType(rt, telegram_id, report_type, instance_id) ==
    [k \in {q \in DOMAIN rt : ~(q[1] = telegram_id
                                 /\ BeginsWithReportPrefix(q[2], report_type))}
       |-> rt[k]]

delete_report_instance(rt, telegram_id, report_type, instance_id) ==
    delete_item(rt, <<telegram_id, SK_INSTANCE(report_type, instance_id)>>)

(* Compatibility results: an item under COMPAT#<result_id> *)
save_compatibility_result(rt, telegram_id, result_id, at) ==
    put_item(rt, <<telegram_id, SK_COMPAT(result_id)>>, [created_at |-> at])

(* Pending report data *)

(* A save that keeps the fields of the entry it replaces *)
save_pending_report_data_Merge(rt, telegram_id, report_id, data, at) ==
    LET old == get_item(rt, <<telegram_id, SK_PENDING(report_id)>>)
        kept == IF IsNone(old) THEN {}
                ELSE {kv \in Val(old).data : kv[1] \notin DictKeys(data)}
    IN  put_item(rt, <<telegram_id, SK_PENDING(report_id)>>,
                 [data |-> data \cup kept, created_at |-> at])

save_pending_report_data(rt, telegram_id, report_id, data, at) ==
    put_item(rt, <<telegram_id, SK_PENDING(report_id)>>,
             [data |-> data, created_at |-> at])

(* A read that returns the purpose field only *)
get_pending_report_data_PurposeOnly(rt, telegram_id, report_id) ==
    LET item == get_item(rt, <<telegram_id, SK_PENDING(report_id)>>)
    IN  IF IsNone(item) THEN None
        ELSE Some({kv \in Val(item).data : kv[1] = "purpose"})

get_pending_report_data(rt, telegram_id, report_id) ==
    LET item == get_item(rt, <<telegram_id, SK_PENDING(report_id)>>)
    IN  IF IsNone(item) THEN None ELSE Some(Val(item).data)

delete_pending_report_data(rt, telegram_id, report_id) ==
    delete_item(rt, <<telegram_id, SK_PENDING(report_id)>>)

(* Generation lock *)
LockItem(rt, telegram_id, report_id) ==
    get_item(rt, <<telegram_id, SK_LOCK(report_id)>>)

LockAge(item, at) == at - item.created_at

(* Staleness tests with the comparison turned round, and with the age    *)
(* taken in minutes                                                        *)
IsStale_Inverted(item, at) == LockAge(item, at) < LOCK_TTL

IsStale_Minutes(item, at) == LockAge(item, at) > 60 * LOCK_TTL

(* The staleness test of is_report_generating *)
IsStale(item, at) == LockAge(item, at) > LOCK_TTL

set_report_generating(rt, telegram_id, report_id, at) ==
    put_item(rt, <<telegram_id, SK_LOCK(report_id)>>, [created_at |-> at])

(* A release that deletes under the key REPORT#{report_id} *)
clear_report_generating_ReportKey(rt, telegram_id, report_id) ==
    delete_item(rt, <<telegram_id, SK_REPORT(report_id)>>)

(* A release that leaves the lock item in the table *)
clear_report_generating_Noop(rt, telegram_id, report_id) == rt

clear_report_generating(rt, telegram_id, report_id) ==
    delete_item(rt, <<telegram_id, SK_LOCK(report_id)>>)

(* is_report_generating as one call: the answer and the table it leaves *)
is_report_generating(rt, telegram_id, report_id, at) ==
    LET item == LockItem(rt, telegram_id, report_id)
    IN  IF IsNone(item) THEN [generating |-> FALSE, table |-> rt]
        ELSE IF IsStale(Val(item), at)
        THEN [ generating |-> FALSE,
               table |-> clear_report_generating(rt, telegram_id, report_id) ]
        ELSE [generating |-> TRUE, table |-> rt]

----------------------------------------------------------------------------
(* Inputs the environment sends *)

ActiveUsers == {1}
NewUsers == {2}
InReportIds == {"full_portrait", "name_selection", "bogus"}
InPayloads == {<<"subscription", "pro">>} \cup {<<"report", t>> : t \in InReportIds}
InGenerateRequests ==
    { <<"full_portrait", None>>, <<"bogus", None>>, <<"year_forecast", None>>,
      <<"name_selection", None>>, <<"name_selection", Some({<<"purpose", "business">>})>> }
InInvoiceRequests == {<<"report", "name_selection">>, <<"report", "bogus">>}
InDeleteRequests ==
    { <<"name_selection", "id_a">>, <<"name_selection", "id_b">>,
      <<"full_portrait", "id_a">> }
(* callback data name_purpose_<x>: the buttons offered, and a value that   *)
(* no button carries                                                       *)
OfferedPurposes == {"child", "business", "self"}
InPurposes == {"child", "business", "pet"}
InGenders == {"male"}
StagedContexts == {{<<"purpose", "business">>}}

----------------------------------------------------------------------------
(* Handler invocations *)

IdleRun ==
    [ pc           |-> "idle",
      handler      |-> "",
      telegram_id  |-> 0,
      report_id    |-> "",
      payload      |-> <<>>,
      serial       |-> 0,
      user         |-> None,
      is_pro       |-> FALSE,
      pending_data |-> None,
      context      |-> EmptyDict,
      gen_args     |-> None,
      content      |-> None,
      instance_id  |-> None,
      result       |-> "",
      \* history of the run, read by the properties only
      staged       |-> FALSE,   \* a pending context was staged when it started
      lock_seen    |-> "",      \* verdict of is_report_generating
      lock_age     |-> -1,      \* age of the lock item it read, -1 if none
      lock_holder  |-> FALSE,   \* another run in flight had set that lock
      acquired     |-> FALSE,
      acquired_at  |-> -1,      \* the time it wrote the lock, while it runs
      invoiced     |-> FALSE,   \* an invoice for its payload had been issued
      at           |-> -1,      \* when a usage limit was tested
      generated    |-> FALSE,
      granted      |-> FALSE,
      persisted    |-> FALSE,
      changed      |-> {} ]

(* The serial number of the invocation stands for the text the generator  *)
(* returns to it: every call returns a text of its own.                    *)
NewRun(handler, telegram_id, report_id) ==
    [IdleRun EXCEPT !.handler = handler,
                    !.telegram_id = telegram_id,
                    !.report_id = report_id,
                    !.serial = starts + 1,
                    !.staged = <<telegram_id, <<"PENDING", report_id>>>>
                                   \in DOMAIN reports_table]

(* The handler returns: its locals are gone, its reply and history stay *)
Finish(r, result) ==
    [r EXCEPT !.pc = "done", !.result = result,
              !.payload = <<>>, !.serial = 0, !.user = None, !.is_pro = FALSE,
              !.pending_data = None, !.context = EmptyDict, !.gen_args = None,
              !.content = None, !.instance_id = None,
              !.acquired_at = -1, !.invoiced = FALSE]
Goto(r, pc) == [r EXCEPT !.pc = pc]

InFlight(r) == r.pc \notin {"idle", "done"}

(* What a step changed in the tables: the reports keys whose item differs, *)
(* and the fields of the user item that differ.                            *)
UserField(ut, u, f) == IF IsNone(ut[u]) THEN None ELSE Some(Val(ut[u])[f])
UserFields ==
    {"purchased_reports", "payment_history", "subscription_type", "referrals_count"}
ChangedBy(ut2, rt2) ==
    {<<"reports", k>> : k \in {q \in DOMAIN reports_table \cup DOMAIN rt2 :
                                 get_item(reports_table, q) # get_item(rt2, q)}}
    \cup {<<"users", u, f>> : <<u, f>> \in
             {x \in Users \X UserFields :
                UserField(users_table, x[1], x[2]) # UserField(ut2, x[1], x[2])}}

HasPurchased(ut, u, t) ==
    ~IsNone(ut[u]) /\ InSeq(t, Val(ut[u]).purchased_reports)

(* The run after a step that leaves the tables as ut2 and rt2 *)
Track(r, ut2, rt2) ==
    [r EXCEPT !.changed = @ \cup ChangedBy(ut2, rt2),
              !.granted = @ \/ ( /\ ~HasPurchased(users_table, r.telegram_id, r.report_id)
                                 /\ HasPurchased(ut2, r.telegram_id, r.report_id) )]

(* A free worker takes the invocation; the workers are interchangeable,   *)
(* so the second one is used only once the first has been.                 *)
CanStart(p) ==
    /\ runs[p].pc \in {"idle", "done"}
    /\ starts < MaxStarts
    /\ p = "w2" => runs["w1"].pc # "idle"

Begin(p, r) ==
    /\ runs' = [runs EXCEPT ![p] = r]
    /\ starts' = starts + 1

(* A step of run p that writes the tables *)
Write(p, r, ut2, rt2) ==
    /\ users_table' = ut2
    /\ reports_table' = rt2
    /\ runs' = [runs EXCEPT ![p] = Track(r, ut2, rt2)]

(* A step of run p that only reads *)
Read(p, r) ==
    /\ runs' = [runs EXCEPT ![p] = r]
    /\ UNCHANGED <<users_table, reports_table>>

----------------------------------------------------------------------------
(* Generation lock, as every entry point uses it:                          *)
(*     if await db.is_report_generating(...): return                       *)
(*     await db.set_report_generating(...)                                 *)

HeldByOther(p) ==
    \E q \in Workers \ {p} :
        /\ InFlight(runs[q]) /\ runs[q].acquired
        /\ runs[q].telegram_id = runs[p].telegram_id
        /\ runs[q].report_id = runs[p].report_id

(* is_report_generating: the get_item and the verdict on it *)
IsReportGenerating(p) ==
    /\ runs[p].pc = "is_generating"
    /\ LET r == runs[p]
           item == LockItem(reports_table, r.telegram_id, r.report_id)
       IN  Read(p,
             IF IsNone(item)
             THEN [r EXCEPT !.pc = "set_generating", !.lock_seen = "absent"]
             ELSE IF IsStale(Val(item), now)
             THEN [r EXCEPT !.pc = "clear_stale", !.lock_seen = "stale",
                            !.lock_age = LockAge(Val(item), now),
                            !.lock_holder = HeldByOther(p)]
             ELSE [Finish(r, "AlreadyInProgress") EXCEPT
                      !.lock_seen = "live",
                      !.lock_age = LockAge(Val(item), now),
                      !.lock_holder = HeldByOther(p)])
    /\ UNCHANGED <<fsm, now, ticks, starts>>

(* is_report_generating: the clear_report_generating of a stale lock *)
ClearStaleLock(p) ==
    /\ runs[p].pc = "clear_stale"
    /\ LET r == runs[p]
       IN  Write(p, Goto(r, "set_generating"), users_table,
                 clear_report_generating(reports_table, r.telegram_id, r.report_id))
    /\ UNCHANGED <<fsm, now, ticks, starts>>

AfterLock(r) == IF r.handler = "payment" THEN "pay_add_purchased" ELSE "generate"

SetReportGenerating(p) ==
    /\ runs[p].pc = "set_generating"
    /\ LET r == runs[p]
       IN  Write(p, [r EXCEPT !.pc = AfterLock(r), !.acquired = TRUE,
                                  !.acquired_at = now], users_table,
                 set_report_generating(reports_table, r.telegram_id, r.report_id, now))
    /\ UNCHANGED <<fsm, now, ticks, starts>>

----------------------------------------------------------------------------
(* process_successful_payment *)

NoInputReports == {"full_portrait", "financial_code"}
PendingReports == {"date_calendar", "year_forecast", "name_selection", "compatibility_pro"}

(* An invoice with this payload was sent to the user by a run that ended *)
InvoiceIssued(telegram_id, report_id) ==
    \E q \in Workers :
        /\ runs[q].pc = "done" /\ runs[q].result = "Invoice"
        /\ runs[q].telegram_id = telegram_id /\ runs[q].report_id = report_id

(* user = await db.get_user(telegram_id); if not user: return *)
PaymentStart(p, telegram_id, payload) ==
    /\ CanStart(p)
    /\ LET user == users_table[telegram_id]
           report_id == IF payload[1] = "report" THEN payload[2] ELSE ""
           r == [NewRun("payment", telegram_id, report_id)
                   EXCEPT !.payload = payload, !.user = user,
                          !.invoiced = InvoiceIssued(telegram_id, report_id)]
       IN  Begin(p, IF IsNone(user) THEN Finish(r, "NoUser")
                    ELSE Goto(r, "pay_add_payment"))
    /\ UNCHANGED <<users_table, reports_table, fsm, now, ticks>>

(* await db.add_payment(user, payload, payment.total_amount), then the     *)
(* dispatch on the payload                                                 *)
PayAddPayment(p) ==
    /\ runs[p].pc = "pay_add_payment"
    /\ LET r == runs[p]
           user == add_payment_user(Val(r.user), r.payload)
           r2 == [r EXCEPT !.user = Some(user)]
       IN  Write(p,
                 IF r.payload = <<"subscription", "pro">> THEN Goto(r2, "pay_activate")
                 ELSE IF r.payload[1] = "report" THEN Goto(r2, "is_generating")
                 ELSE Finish(r2, "Ignored"),
                 update_user(users_table, r.telegram_id, user), reports_table)
    /\ UNCHANGED <<fsm, now, ticks, starts>>

(* user = await db.activate_subscription(user, SubscriptionType.PRO) *)
PayActivate(p) ==
    /\ runs[p].pc = "pay_activate"
    /\ LET r == runs[p]
           user == activate_subscription_user(Val(r.user), "pro", now)
       IN  Write(p, Finish([r EXCEPT !.user = Some(user)], "Subscribed"),
                 update_user(users_table, r.telegram_id, user), reports_table)
    /\ UNCHANGED <<fsm, now, ticks, starts>>

(* await db.add_purchased_report(user, report_id), right after the lock *)
PayAddPurchased(p) ==
    /\ runs[p].pc = "pay_add_purchased"
    /\ LET r == runs[p]
           user == add_purchased_report_user(Val(r.user), r.report_id)
       IN  Write(p, [r EXCEPT !.pc = "pay_get_pending", !.user = Some(user)],
                 update_user(users_table, r.telegram_id, user), reports_table)
    /\ UNCHANGED <<fsm, now, ticks, starts>>

(* The if/elif chain that picks the generator; its else branch is the      *)
(* error reply.                                                            *)
PayCanGenerate(report_id, pending_data) ==
    \/ report_id \in NoInputReports
    \/ report_id \in PendingReports /\ Truthy(pending_data)

(* pending_data = await db.get_pending_report_data(...);                   *)
(* context = pending_data or {}                                            *)
PayGetPending(p) ==
    /\ runs[p].pc = "pay_get_pending"
    /\ LET r == runs[p]
           pending_data == get_pending_report_data(reports_table, r.telegram_id,
                                                   r.report_id)
           context == IF Truthy(pending_data) THEN Val(pending_data) ELSE EmptyDict
       IN  Read(p, [r EXCEPT !.pending_data = pending_data,
                             !.context = context,
                             !.pc = IF PayCanGenerate(r.report_id, pending_data)
                                    THEN "generate" ELSE "pay_else_clear"])
    /\ UNCHANGED <<fsm, now, ticks, starts>>

(* else: await db.clear_report_generating(...); error reply; return *)
PayElseClear(p) ==
    /\ runs[p].pc = "pay_else_clear"
    /\ LET r == runs[p]
       IN  Write(p, Finish(r, "ErrorReply"), users_table,
                 clear_report_generating(reports_table, r.telegram_id, r.report_id))
    /\ UNCHANGED <<fsm, now, ticks, starts>>

(* await db.delete_pending_report_data(...), in the branch of the          *)
(* generator call, before the report is saved                              *)
PayDeletePending(p) ==
    /\ runs[p].pc = "pay_delete_pending"
    /\ LET r == runs[p]
       IN  Write(p, Goto(r, "save"), users_table,
                 delete_pending_report_data(reports_table, r.telegram_id, r.report_id))
    /\ UNCHANGED <<fsm, now, ticks, starts>>

----------------------------------------------------------------------------
(* The external generator call: content = await ai_service.generate_...    *)
(* It returns the text or raises; no handler catches what it raises.       *)

(* What the handler passes to the generator besides user and profile *)
GeneratorArgs(r) ==
    IF r.report_id \in NoInputReports THEN EmptyDict
    ELSE IF r.handler = "payment" /\ r.report_id = "compatibility_pro"
    THEN { <<"name", DictGet(r.context, "partner_name", "None")>>,
           <<"birth_date", DictGet(r.context, "partner_birth_date", "None")>> }
    ELSE IF r.handler = "api_generate" /\ r.report_id = "year_forecast"
    THEN { <<"year", DictGet(r.context, "year", "datetime.now().year")>> }
    ELSE IF r.handler = "api_generate" /\ r.report_id = "date_calendar"
    THEN { <<"month", DictGet(r.context, "month", "datetime.now().month")>>,
           <<"year", DictGet(r.context, "year", "datetime.now().year")>> }
    ELSE r.context

AfterGenerate(r) ==
    IF r.handler = "payment" /\ r.report_id \in PendingReports
    THEN "pay_delete_pending" ELSE "save"

Generate(p) ==
    /\ runs[p].pc = "generate"
    /\ LET r == [runs[p] EXCEPT !.generated = TRUE,
                                !.gen_args = Some(GeneratorArgs(runs[p]))]
       IN  \/ Read(p, [r EXCEPT !.content = Some(r.serial), !.pc = AfterGenerate(r)])
           \/ Read(p, Finish(r, "GenerationFailed"))
    /\ UNCHANGED <<fsm, now, ticks, starts>>

----------------------------------------------------------------------------
(* Persisting the report, and the steps after it *)

(* A handler that takes every type for single-instance *)
IsMulti_SingleForm(r) == FALSE

(* is_multi as the handler computes it *)
IsMulti(r) ==
    IF r.handler = "api_generate"
    THEN InfoFlag(AVAILABLE_REPORTS, r.report_id, "multi_instance")
    ELSE InfoFlag(REPORT_INFO, r.report_id, "multi_instance")

AfterSave(r) ==
    IF r.handler = "payment" THEN "clear"
    ELSE IF r.handler = "api_generate"
    THEN (IF InSeq(r.report_id, Val(r.user).purchased_reports)
          THEN "clear" ELSE "add_purchased")
    ELSE "add_purchased"

(* save_report_instance / save_report; the put may fail *)
Save(p) ==
    /\ runs[p].pc = "save"
    /\ LET r == runs[p]
       IN  \/ /\ IsMulti(r)
              /\ \E instance_id \in InstanceIds :
                   Write(p, [r EXCEPT !.instance_id = Some(instance_id),
                                      !.persisted = TRUE,
                                      !.pc = AfterSave(r)],
                         users_table,
                         save_report_instance(reports_table, r.telegram_id, r.report_id,
                                              instance_id, Val(r.content), r.context, now))
           \/ /\ ~IsMulti(r)
              /\ Write(p, [r EXCEPT !.persisted = TRUE, !.pc = AfterSave(r)],
                       users_table,
                       save_report(reports_table, r.telegram_id, r.report_id,
                                   Val(r.content), now))
           \/ Read(p, Finish(r, "StorageFailure"))
    /\ UNCHANGED <<fsm, now, ticks, starts>>

AfterAddPurchased(r) == IF r.handler = "finalize" THEN "delete_pending" ELSE "clear"

(* await db.add_purchased_report(user, report_id), after the save *)
AddPurchased(p) ==
    /\ runs[p].pc = "add_purchased"
    /\ LET r == runs[p]
           user == add_purchased_report_user(Val(r.user), r.report_id)
       IN  Write(p, [r EXCEPT !.pc = AfterAddPurchased(r), !.user = Some(user)],
                 update_user(users_table, r.telegram_id, user), reports_table)
    /\ UNCHANGED <<fsm, now, ticks, starts>>

(* await db.delete_pending_report_data(...), after the save *)
DeletePending(p) ==
    /\ runs[p].pc = "delete_pending"
    /\ LET r == runs[p]
       IN  Write(p, Goto(r, "clear"), users_table,
                 delete_pending_report_data(reports_table, r.telegram_id, r.report_id))
    /\ UNCHANGED <<fsm, now, ticks, starts>>

(* await db.clear_report_generating(...), the last table access *)
Clear(p) ==
    /\ runs[p].pc = "clear"
    /\ LET r == runs[p]
       IN  Write(p, Finish(r, "Success"), users_table,
                 clear_report_generating(reports_table, r.telegram_id, r.report_id))
    /\ UNCHANGED <<fsm, now, ticks, starts>>

----------------------------------------------------------------------------
(* handle_report_request: a report deep link or a report_<id> callback *)

WaitingState(report_id) ==
    IF report_id = "name_selection" THEN "waiting_for_name_purpose"
    ELSE IF report_id = "compatibility_pro" THEN "waiting_for_partner_name"
    ELSE IF report_id = "year_forecast" THEN "waiting_for_forecast_year"
    ELSE "waiting_for_calendar_month"

(* Steps 2 to 4 of the handler: direct generation, collection, invoice *)
RequestNextRun(r) ==
    LET info == REPORT_INFO[r.report_id]
    IN  IF r.is_pro /\ ~info.requires_input /\ ~info.multi_instance
        THEN Goto(r, "is_generating")
        ELSE IF info.requires_input THEN Finish(r, "Collecting")
        ELSE Finish(r, "Invoice")

RequestNextFsm(r) ==
    LET info == REPORT_INFO[r.report_id]
    IN  IF ~(r.is_pro /\ ~info.requires_input /\ ~info.multi_instance)
           /\ info.requires_input
        THEN [fsm EXCEPT ![r.telegram_id] =
                 Some([ state |-> WaitingState(r.report_id),
                        data  |-> { <<"report_id", r.report_id>>,
                                    <<"is_pro", r.is_pro>> } ])]
        ELSE fsm

ReportRequestStart(p, telegram_id, report_id) ==
    /\ CanStart(p)
    /\ LET user == users_table[telegram_id]
           r0 == [NewRun("report_request", telegram_id, report_id) EXCEPT !.user = user]
       IN  IF IsNone(user) \/ ~Val(user).onboarded
           THEN Begin(p, Finish(r0, "NotOnboarded")) /\ UNCHANGED fsm
           ELSE IF report_id \notin DOMAIN REPORT_INFO
           \* info = REPORT_INFO.get(report_id) is None and info.get(...) raises
           THEN Begin(p, Finish(r0, "Crash")) /\ UNCHANGED fsm
           ELSE LET r == [r0 EXCEPT !.is_pro = IsPro(Val(user), now)]
                IN  IF InSeq(report_id, Val(user).purchased_reports)
                       /\ ~REPORT_INFO[report_id].multi_instance
                    THEN Begin(p, Goto(r, "req_get_report")) /\ UNCHANGED fsm
                    ELSE Begin(p, RequestNextRun(r)) /\ fsm' = RequestNextFsm(r)
    /\ UNCHANGED <<users_table, reports_table, now, ticks>>

(* existing = await db.get_report(telegram_id, report_id) *)
ReqGetReport(p) ==
    /\ runs[p].pc = "req_get_report"
    /\ LET r == runs[p]
           existing == get_report(reports_table, r.telegram_id, r.report_id)
       IN  IF ~IsNone(existing)
           THEN Read(p, Finish(r, "View")) /\ UNCHANGED fsm
           ELSE Read(p, RequestNextRun(r)) /\ fsm' = RequestNextFsm(r)
    /\ UNCHANGED <<now, ticks, starts>>

----------------------------------------------------------------------------
(* The name_selection collection flow *)

FsmState(telegram_id) ==
    IF IsNone(fsm[telegram_id]) THEN "" ELSE Val(fsm[telegram_id]).state
FsmData(telegram_id) ==
    IF IsNone(fsm[telegram_id]) THEN EmptyDict ELSE Val(fsm[telegram_id]).data

(* A clear that leaves the collector's state in place *)
state_clear_Keep(f, telegram_id) == f

(* await state.clear() *)
state_clear(f, telegram_id) == [f EXCEPT ![telegram_id] = None]

(* A context that never carries the gender *)
NameContext_NoGender(purpose, gender) == {<<"purpose", purpose>>}

(* context = {"purpose": purpose}; if gender: context["gender"] = gender *)
NameContext(purpose, gender) ==
    IF IsNone(gender) \/ gender = Some("") THEN {<<"purpose", purpose>>}
    ELSE {<<"purpose", purpose>>, <<"gender", Val(gender)>>}

(* finalize_name_selection up to its first table write *)
FinalizeRun(telegram_id, user, data, purpose, gender) ==
    [NewRun("finalize", telegram_id, "name_selection") EXCEPT
        !.user = user,
        !.is_pro = DictGet(data, "is_pro", FALSE),
        !.context = NameContext(purpose, gender),
        !.pc = "fin_save_pending"]

(* process_name_purpose *)
NamePurpose(p, telegram_id, purpose) ==
    /\ CanStart(p)
    /\ FsmState(telegram_id) = "waiting_for_name_purpose"
    /\ LET user == users_table[telegram_id]
           data == DictSet(FsmData(telegram_id), "purpose", purpose)
       IN  IF purpose = "child"
           THEN /\ Begin(p, Finish([NewRun("name_purpose", telegram_id, "name_selection")
                                      EXCEPT !.user = user], "AskGender"))
                /\ fsm' = [fsm EXCEPT ![telegram_id] =
                              Some([state |-> "waiting_for_child_gender", data |-> data])]
           ELSE /\ Begin(p, FinalizeRun(telegram_id, user, data, purpose, None))
                /\ fsm' = [fsm EXCEPT ![telegram_id] =
                              Some([state |-> "waiting_for_name_purpose", data |-> data])]
    /\ UNCHANGED <<users_table, reports_table, now, ticks>>

(* process_child_gender *)
ChildGender(p, telegram_id, gender) ==
    /\ CanStart(p)
    /\ FsmState(telegram_id) = "waiting_for_child_gender"
    /\ LET user == users_table[telegram_id]
           data == FsmData(telegram_id)
       IN  Begin(p, FinalizeRun(telegram_id, user, data,
                                DictGet(data, "purpose", "child"), Some(gender)))
    /\ UNCHANGED <<users_table, reports_table, fsm, now, ticks>>

(* await db.save_pending_report_data(...); await state.clear(); then the   *)
(* PRO branch or the invoice                                               *)
FinSavePending(p) ==
    /\ runs[p].pc = "fin_save_pending"
    /\ LET r == runs[p]
           staged == [r EXCEPT !.staged = TRUE]
       IN  \* staging precedes the fulfilment, whose changes the run records
           /\ reports_table' =
                  save_pending_report_data(reports_table, r.telegram_id, r.report_id,
                                           r.context, now)
           /\ runs' = [runs EXCEPT ![p] =
                          IF r.is_pro THEN Goto(staged, "is_generating")
                                      ELSE Finish(staged, "Invoice")]
           /\ UNCHANGED users_table
    /\ fsm' = state_clear(fsm, runs[p].telegram_id)
    /\ UNCHANGED <<now, ticks, starts>>

----------------------------------------------------------------------------
(* Mini App API *)

(* handle_generate_report up to the lock *)
ApiGenerateStart(p, telegram_id, report_id, body) ==
    /\ CanStart(p)
    /\ LET user == users_table[telegram_id]
           r == [NewRun("api_generate", telegram_id, report_id) EXCEPT !.user = user]
       IN  Begin(p,
             IF IsNone(user) \/ ~Val(user).onboarded THEN Finish(r, "NotOnboarded")
             ELSE IF report_id \notin DOMAIN AVAILABLE_REPORTS THEN Finish(r, "NotFound")
             ELSE IF ~IsPro(Val(user), now)
                     /\ ~InSeq(report_id, Val(user).purchased_reports)
             THEN Finish(r, "Forbidden")
             ELSE [r EXCEPT !.is_pro = IsPro(Val(user), now),
                            !.context = IF IsNone(body) THEN EmptyDict ELSE Val(body),
                            !.pc = "is_generating"])
    /\ UNCHANGED <<users_table, reports_table, fsm, now, ticks>>

(* handle_get_report_content without an instance id *)
ApiGetReportContent(p, telegram_id, report_id) ==
    /\ CanStart(p)
    /\ LET user == users_table[telegram_id]
           r == [NewRun("api_get", telegram_id, report_id) EXCEPT !.user = user]
           answer ==
               IF IsNone(user) THEN "NotFound"
               ELSE IF report_id \notin DOMAIN AVAILABLE_REPORTS THEN "NotFound"
               ELSE IF ~(InSeq(report_id, Val(user).purchased_reports)
                         \/ IsPro(Val(user), now))
               THEN "Forbidden"
               ELSE IF IsNone(get_report(reports_table, telegram_id, report_id))
               THEN "NotFound"
               ELSE "Content"
       IN  Begin(p, Finish(r, answer))
    /\ UNCHANGED <<users_table, reports_table, fsm, now, ticks>>

(* handle_create_invoice: POST /api/invoice *)
ApiCreateInvoice(p, telegram_id, product_type) ==
    /\ CanStart(p)
    /\ LET user == users_table[telegram_id]
           report_id == IF product_type[1] = "report" THEN product_type[2] ELSE ""
           r == [NewRun("api_invoice", telegram_id, report_id) EXCEPT
                    !.payload = product_type, !.user = user]
       IN  Begin(p,
             IF IsNone(user) THEN Finish(r, "NotFound")
             ELSE IF product_type[1] = "subscription" THEN Finish(r, "Invoice")
             ELSE IF product_type[1] = "report"
             THEN (IF report_id \in DOMAIN AVAILABLE_REPORTS
                   THEN Finish(r, "Invoice") ELSE Finish(r, "BadRequest"))
             ELSE Finish(r, "BadRequest"))
    /\ UNCHANGED <<users_table, reports_table, fsm, now, ticks>>

(* handle_delete_report_instance *)
ApiDeleteInstance(p, telegram_id, report_id, instance_id) ==
    /\ CanStart(p)
    /\ LET user == users_table[telegram_id]
           r == [NewRun("api_delete", telegram_id, report_id) EXCEPT
                    !.user = user, !.instance_id = Some(instance_id)]
           answer ==
               IF IsNone(user) THEN "NotFound"
               ELSE IF report_id \notin DOMAIN AVAILABLE_REPORTS THEN "NotFound"
               ELSE IF ~AVAILABLE_REPORTS[report_id].multi_instance THEN "BadRequest"
               ELSE IF ~(InSeq(report_id, Val(user).purchased_reports)
                         \/ IsPro(Val(user), now))
               THEN "Forbidden"
               ELSE IF IsNone(get_report_instance(reports_table, telegram_id, report_id,
                                                  instance_id))
               THEN "NotFound"
               ELSE "Deleted"
           rt2 == IF answer = "Deleted"
                  THEN delete_report_instance(reports_table, telegram_id, report_id,
                                              instance_id)
                  ELSE reports_table
       IN  /\ users_table' = users_table
           /\ reports_table' = rt2
           /\ Begin(p, Track(Finish(r, answer), users_table, rt2))
    /\ UNCHANGED <<fsm, now, ticks>>

----------------------------------------------------------------------------
(* cmd_start of a new user that followed a referral link *)

REFERRAL_BONUS_REPORT == "full_portrait"

(* create_user: put the new item; _process_referral reads the referrer *)
CmdStartReferred(p, telegram_id, referrer_id) ==
    /\ CanStart(p)
    /\ IsNone(users_table[telegram_id])
    /\ LET user == [NewUser EXCEPT !.onboarded = FALSE]
           ut2 == update_user(users_table, telegram_id, user)
           r == [NewRun("cmd_start", referrer_id, REFERRAL_BONUS_REPORT) EXCEPT
                    !.user = users_table[referrer_id]]
       IN  /\ users_table' = ut2
           /\ Begin(p, Track(IF IsNone(users_table[referrer_id])
                             THEN Finish(r, "Created") ELSE Goto(r, "referral_update"),
                             ut2, reports_table))
    /\ UNCHANGED <<reports_table, fsm, now, ticks>>

(* _process_referral: the counters, the bonus report, update_user *)
process_referral_user(referrer) ==
    LET counted == [referrer EXCEPT !.referrals_count = @ + 1]
    IN  IF counted.referrals_count = 1
        THEN [counted EXCEPT !.purchased_reports = Append(@, REFERRAL_BONUS_REPORT)]
        ELSE counted

ProcessReferral(p) ==
    /\ runs[p].pc = "referral_update"
    /\ LET r == runs[p]
           referrer == process_referral_user(Val(r.user))
       IN  Write(p, Finish([r EXCEPT !.user = Some(referrer)], "Created"),
                 update_user(users_table, r.telegram_id, referrer), reports_table)
    /\ UNCHANGED <<fsm, now, ticks, starts>>

----------------------------------------------------------------------------
(* Time *)

Tick ==
    /\ ticks < MaxTicks
    /\ \E d \in TickSteps : now' = now + d
    /\ ticks' = ticks + 1
    /\ UNCHANGED <<users_table, reports_table, fsm, runs, starts>>

----------------------------------------------------------------------------
(* Initial states: user 1 is onboarded, with or without a PRO              *)
(* subscription, and is at one of four points of the name_selection flow:  *)
(* not in it, asked for the purpose, asked for the child's gender, or done *)
(* with the collection (context staged, invoice not paid yet). User 2 has  *)
(* not started the bot.                                                    *)

InitUser(pro) ==
    IF pro THEN activate_subscription_user(NewUser, "pro", 0) ELSE NewUser

InitStages == {"none", "purpose", "gender", "staged"}

InitFsm(pro, stage) ==
    LET data == {<<"report_id", "name_selection">>, <<"is_pro", pro>>}
    IN  IF stage = "purpose"
        THEN Some([state |-> "waiting_for_name_purpose", data |-> data])
        ELSE IF stage = "gender"
        THEN Some([ state |-> "waiting_for_child_gender",
                    data  |-> DictSet(data, "purpose", "child") ])
        ELSE None

Init ==
    \E pro \in BOOLEAN, stage \in InitStages :
        /\ users_table = [u \in Users |->
                            IF u \in ActiveUsers THEN Some(InitUser(pro)) ELSE None]
        /\ reports_table =
              IF stage = "staged"
              THEN save_pending_report_data(EmptyTable, 1, "name_selection",
                                            CHOOSE c \in StagedContexts : TRUE, 0)
              ELSE EmptyTable
        /\ fsm = [u \in Users |-> IF u \in ActiveUsers THEN InitFsm(pro, stage) ELSE None]
        /\ runs = [p \in Workers |-> IdleRun]
        /\ now = 0
        /\ ticks = 0
        /\ starts = 0

Next ==
    \/ \E p \in Workers :
         \/ \E u \in ActiveUsers, payload \in InPayloads : PaymentStart(p, u, payload)
         \/ PayAddPayment(p)
         \/ PayActivate(p)
         \/ IsReportGenerating(p)
         \/ ClearStaleLock(p)
         \/ SetReportGenerating(p)
         \/ PayAddPurchased(p)
         \/ PayGetPending(p)
         \/ PayElseClear(p)
         \/ PayDeletePending(p)
         \/ Generate(p)
         \/ Save(p)
         \/ AddPurchased(p)
         \/ DeletePending(p)
         \/ Clear(p)
         \/ \E u \in ActiveUsers, t \in InReportIds : ReportRequestStart(p, u, t)
         \/ ReqGetReport(p)
         \/ \E u \in ActiveUsers, purpose \in InPurposes : NamePurpose(p, u, purpose)
         \/ \E u \in ActiveUsers, gender \in InGenders : ChildGender(p, u, gender)
         \/ FinSavePending(p)
         \/ \E u \in ActiveUsers, req \in InGenerateRequests :
              ApiGenerateStart(p, u, req[1], req[2])
         \/ \E u \in NewUsers : ApiGenerateStart(p, u, "full_portrait", None)
         \/ \E u \in ActiveUsers, req \in InDeleteRequests :
              ApiDeleteInstance(p, u, req[1], req[2])
         \/ \E u \in ActiveUsers, t \in {"full_portrait", "name_selection"} : ApiGetReportContent(p, u, t)
         \/ \E u \in ActiveUsers, product_type \in InInvoiceRequests :
              ApiCreateInvoice(p, u, product_type)
         \/ \E u \in NewUsers, ref \in ActiveUsers : CmdStartReferred(p, u, ref)
         \/ ProcessReferral(p)
    \/ Tick

Spec == Init /\ [][Next]_vars

----------------------------------------------------------------------------
(* The store on its own: DatabaseService methods called one after the      *)
(* other on the reports table, in any order and with any arguments. The    *)
(* record of the last call is kept in runs["w1"]; the content saved by a   *)
(* call is its number.                                                     *)

(* The arguments of the calls: user 1 has two multi-instance types, user 2 *)
(* is the other user                                                       *)
StoreKeys == {<<1, "name_selection">>, <<1, "year_forecast">>}
StoreLockKeys == StoreKeys \cup {<<2, "name_selection">>}
StoreContexts == {NameContext("child", Some("male")), NameContext("business", None)}
(* context = {"year": year}, the year written as text *)
StoreYearContext == {<<"year", "2026">>}
StoreSaveReportCalls ==
    {<<1, "full_portrait">>, <<2, "full_portrait">>, <<1, "name_selection">>}
(* result_id is a uuid prefix, as instance_id is *)
StoreCompatCalls == {<<1, "id_a">>}
StoreSaveInstanceCalls ==
    {<<1, "name_selection", i, c>> : i \in InstanceIds, c \in StoreContexts}
    \cup { <<1, "year_forecast", "id_a", StoreYearContext>>,
           <<2, "name_selection", "id_a", NameContext("business", None)>> }
StoreDeleteInstanceCalls ==
    {<<1, "name_selection", i>> : i \in InstanceIds}
    \cup {<<1, "year_forecast", "id_a">>}
StoreSavePendingCalls ==
    {<<1, "name_selection", c>> : c \in StoreContexts}
    \cup { <<1, "year_forecast", StoreYearContext>>,
           <<2, "name_selection", NameContext("business", None)>> }

StoreCall(method, telegram_id, report_id) ==
    [IdleRun EXCEPT !.pc = "done", !.handler = method,
                    !.telegram_id = telegram_id, !.report_id = report_id,
                    !.serial = starts + 1]

Called(r, rt2) ==
    /\ starts < MaxCalls
    /\ starts' = starts + 1
    /\ runs' = [runs EXCEPT !["w1"] = r]
    /\ reports_table' = rt2
    /\ UNCHANGED <<users_table, fsm, now, ticks>>

CallSaveReport(telegram_id, report_type) ==
    Called([StoreCall("save_report", telegram_id, report_type) EXCEPT
               !.content = Some(starts + 1)],
           save_report(reports_table, telegram_id, report_type, starts + 1, now))

CallSaveReportInstance(telegram_id, report_type, instance_id, context) ==
    Called([StoreCall("save_report_instance", telegram_id, report_type) EXCEPT
               !.content = Some(starts + 1), !.context = context,
               !.instance_id = Some(instance_id)],
           save_report_instance(reports_table, telegram_id, report_type, instance_id,
                                starts + 1, context, now))

CallDeleteReportInstance(telegram_id, report_type, instance_id) ==
    Called([StoreCall("delete_report_instance", telegram_id, report_type) EXCEPT
               !.instance_id = Some(instance_id),
               !.persisted = <<telegram_id, SK_INSTANCE(report_type, instance_id)>>
                                 \in DOMAIN reports_table],
           delete_report_instance(reports_table, telegram_id, report_type, instance_id))

(* The record of a call keeps what the store held under its key before *)
CallSavePending(telegram_id, report_id, data) ==
    Called([StoreCall("save_pending_report_data", telegram_id, report_id) EXCEPT
               !.context = data,
               !.pending_data =
                   get_pending_report_data(reports_table, telegram_id, report_id)],
           save_pending_report_data(reports_table, telegram_id, report_id, data, now))

CallDeletePending(telegram_id, report_id) ==
    Called(StoreCall("delete_pending_report_data", telegram_id, report_id),
           delete_pending_report_data(reports_table, telegram_id, report_id))

(* The record of the call keeps the answer *)
CallIsReportGenerating(telegram_id, report_id) ==
    LET answer == is_report_generating(reports_table, telegram_id, report_id, now)
    IN  Called([StoreCall("is_report_generating", telegram_id, report_id) EXCEPT
                   !.result = IF answer.generating THEN "True" ELSE "False"],
               answer.table)

CallSetGenerating(telegram_id, report_id) ==
    Called(StoreCall("set_report_generating", telegram_id, report_id),
           set_report_generating(reports_table, telegram_id, report_id, now))

CallClearGenerating(telegram_id, report_id) ==
    Called(StoreCall("clear_report_generating", telegram_id, report_id),
           clear_report_generating(reports_table, telegram_id, report_id))

CallSaveCompatibilityResult(telegram_id, result_id) ==
    Called([StoreCall("save_compatibility_result", telegram_id, "") EXCEPT
               !.instance_id = Some(result_id)],
           save_compatibility_result(reports_table, telegram_id, result_id, now))

StoreInit ==
    /\ users_table = [u \in Users |-> Some(NewUser)]
    /\ reports_table = EmptyTable
    /\ fsm = [u \in Users |-> None]
    /\ runs = [p \in Workers |-> IdleRun]
    /\ now = 0
    /\ ticks = 0
    /\ starts = 0

StoreNext ==
    \/ \E c \in StoreSaveReportCalls : CallSaveReport(c[1], c[2])
    \/ \E c \in StoreSaveInstanceCalls : CallSaveReportInstance(c[1], c[2], c[3], c[4])
    \/ \E c \in StoreDeleteInstanceCalls : CallDeleteReportInstance(c[1], c[2], c[3])
    \/ \E c \in StoreSavePendingCalls : CallSavePending(c[1], c[2], c[3])
    \/ \E c \in StoreKeys : CallDeletePending(c[1], c[2])
    \/ \E c \in StoreLockKeys : CallIsReportGenerating(c[1], c[2])
    \/ \E c \in StoreLockKeys : CallSetGenerating(c[1], c[2])
    \/ \E c \in StoreLockKeys : CallClearGenerating(c[1], c[2])
    \/ \E c \in StoreCompatCalls : CallSaveCompatibilityResult(c[1], c[2])
    \/ Tick

StoreSpec == StoreInit /\ [][StoreNext]_vars

----------------------------------------------------------------------------
(* The usage limits of a user without a subscription: questions per day    *)
(* and compatibility checks per week. date.today() is the day of the       *)
(* clock; the record of the last handler is kept in runs["w1"].            *)

MaxDays == 7
SECONDS_PER_DAY == 86400

(* The fields of User the two limits read; questions_bonus comes from a    *)
(* referral                                                                *)
QuotaUser(questions_bonus) ==
    [ subscription_type        |-> "free",
      subscription_expires     |-> None,
      questions_today          |-> 0,
      questions_today_reset    |-> None,
      questions_bonus          |-> questions_bonus,
      compatibility_this_week  |-> 0,
      compatibility_week_reset |-> None ]

can_ask_question(user, at) ==
    IF is_premium(user, at) THEN TRUE
    ELSE IF user.questions_bonus > 0 THEN TRUE
    ELSE user.questions_today < 3

can_check_compatibility(user, at) ==
    IF is_premium(user, at) THEN TRUE
    ELSE user.compatibility_this_week < 2

increment_questions_today(user, today) ==
    LET reset == IF user.questions_today_reset # Some(today)
                 THEN [user EXCEPT !.questions_today = 0,
                                   !.questions_today_reset = Some(today)]
                 ELSE user
    IN  IF reset.questions_bonus > 0
        THEN [reset EXCEPT !.questions_bonus = @ - 1]
        ELSE [reset EXCEPT !.questions_today = @ + 1]

increment_compatibility_this_week(user, today) ==
    LET reset == IF \/ IsNone(user.compatibility_week_reset)
                    \/ today - Val(user.compatibility_week_reset) >= 7
                 THEN [user EXCEPT !.compatibility_this_week = 0,
                                   !.compatibility_week_reset = Some(today)]
                 ELSE user
    IN  [reset EXCEPT !.compatibility_this_week = @ + 1]

(* handle_question: a text message outside any collection flow *)
HandleQuestion(telegram_id) ==
    /\ IsNone(fsm[telegram_id])
    /\ LET user == Val(users_table[telegram_id])
           r == [IdleRun EXCEPT !.pc = "done", !.handler = "handle_question",
                                !.telegram_id = telegram_id, !.at = now]
       IN  IF ~can_ask_question(user, now)
           THEN /\ runs' = [runs EXCEPT !["w1"] = [r EXCEPT !.result = "LimitReached"]]
                /\ UNCHANGED users_table
           ELSE /\ runs' = [runs EXCEPT !["w1"] = [r EXCEPT !.result = "Answered"]]
                /\ users_table' =
                     update_user(users_table, telegram_id,
                                 increment_questions_today(user, now \div SECONDS_PER_DAY))
    /\ UNCHANGED <<reports_table, fsm, now, ticks, starts>>

(* cmd_compatibility: /compatibility or its button *)
CmdCompatibility(telegram_id) ==
    /\ LET user == Val(users_table[telegram_id])
           r == [IdleRun EXCEPT !.pc = "done", !.handler = "cmd_compatibility",
                                !.telegram_id = telegram_id, !.at = now]
       IN  IF ~is_premium(user, now) /\ ~can_check_compatibility(user, now)
           THEN /\ runs' = [runs EXCEPT !["w1"] = [r EXCEPT !.result = "LimitReached"]]
                /\ UNCHANGED fsm
           ELSE /\ runs' = [runs EXCEPT !["w1"] = [r EXCEPT !.result = "AskDate"]]
                /\ fsm' = [fsm EXCEPT ![telegram_id] =
                              Some([state |-> "waiting_for_date", data |-> EmptyDict])]
    /\ UNCHANGED <<users_table, reports_table, now, ticks, starts>>

(* process_compatibility_date with a date that parses *)
ProcessCompatibilityDate(telegram_id) ==
    /\ ~IsNone(fsm[telegram_id])
    /\ Val(fsm[telegram_id]).state = "waiting_for_date"
    /\ LET user == Val(users_table[telegram_id])
           r == [IdleRun EXCEPT !.pc = "done", !.handler = "process_compatibility_date",
                                !.telegram_id = telegram_id, !.result = "Compatibility"]
       IN  /\ runs' = [runs EXCEPT !["w1"] = r]
           /\ users_table' =
                IF ~is_premium(user, now)
                THEN update_user(users_table, telegram_id,
                         increment_compatibility_this_week(user, now \div SECONDS_PER_DAY))
                ELSE users_table
    /\ fsm' = state_clear(fsm, telegram_id)
    /\ UNCHANGED <<reports_table, now, ticks, starts>>

(* Midnight *)
NextDay ==
    /\ ticks < MaxDays
    /\ now' = now + SECONDS_PER_DAY
    /\ ticks' = ticks + 1
    /\ UNCHANGED <<users_table, reports_table, fsm, runs, starts>>

QuotaInit ==
    /\ \E questions_bonus \in {0, 1} :
          users_table = [u \in Users |-> IF u \in ActiveUsers
                                        THEN Some(QuotaUser(questions_bonus)) ELSE None]
    /\ reports_table = EmptyTable
    /\ fsm = [u \in Users |-> None]
    /\ runs = [p \in Workers |-> IdleRun]
    /\ now = 0
    /\ ticks = 0
    /\ starts = 0

QuotaNext ==
    \/ \E u \in ActiveUsers : HandleQuestion(u)
    \/ \E u \in ActiveUsers : CmdCompatibility(u)
    \/ \E u \in ActiveUsers : ProcessCompatibilityDate(u)
    \/ NextDay

QuotaSpec == QuotaInit /\ [][QuotaNext]_vars

----------------------------------------------------------------------------
(* Properties *)

FulfillHandlers == {"payment", "report_request", "finalize", "api_generate"}
KnownReports == DOMAIN REPORT_INFO
Fulfilling(p) == runs[p].handler \in FulfillHandlers /\ runs[p].pc # "idle"
SameKey(p, q) ==
    /\ runs[p].telegram_id = runs[q].telegram_id
    /\ runs[p].report_id = runs[q].report_id

(* The run holds the lease it set and has not returned *)
HoldsLease(p) == Fulfilling(p) /\ InFlight(runs[p]) /\ runs[p].acquired

(* A persisted report record of (u, t): the single record or an instance *)
HasRecord(rt, u, t) ==
    \/ <<u, SK_REPORT(t)>> \in DOMAIN rt
    \/ QueryInstances(rt, u, t) # {}

(* What the run changed of the report records, the staged contexts and     *)
(* the purchased_reports of its user                                       *)
LifecycleChanges(p) ==
    {c \in runs[p].changed :
        \/ c[1] = "reports" /\ c[2][2][1] \in {"REPORT", "PENDING"}
        \/ c[1] = "users" /\ c[3] = "purchased_reports"}

LeaseLeft(p) ==
    /\ ~IsNone(LockItem(reports_table, runs[p].telegram_id, runs[p].report_id))
    /\ ~HeldByOther(p)

(* C1: for every (user, type) at most one FulfillReport run holds the      *)
(* lease at any time, whatever the interleaving of the invocations.        *)
C1_AtMostOneLeaseHolder ==
    \A p, q \in Workers :
        (p # q /\ SameKey(p, q)) => ~(HoldsLease(p) /\ HoldsLease(q))

(* C2: a FulfillReport run has added the type to purchased_reports only    *)
(* if it has persisted the generated content before.                       *)
C2_GrantOnlyAfterPersist ==
    \A p \in Workers : (Fulfilling(p) /\ runs[p].granted) => runs[p].persisted

(* C3: every step that adds a type to a user's purchased_reports leaves a  *)
(* persisted report record of that (user, type).                           *)
C3_GrantHasRecord ==
    [][ \A u \in Users, t \in KnownReports \cup InReportIds :
          ( /\ ~HasPurchased(users_table, u, t)
            /\ HasPurchased(users_table', u, t) )
          => HasRecord(reports_table', u, t) ]_vars

(* The second call of C4: it read a lease younger than the TTL that        *)
(* another run in flight had set.                                          *)
SawHeldLease(q) ==
    /\ Fulfilling(q)
    /\ runs[q].lock_holder
    /\ runs[q].lock_age >= 0 /\ runs[q].lock_age < LOCK_TTL

SecondCallRejected(q) ==
    /\ runs[q].pc = "done"
    /\ runs[q].result = "AlreadyInProgress"
    /\ ~runs[q].generated /\ ~runs[q].acquired

C5_StaleLeaseDoesNotBlock ==
    \A q \in Workers :
        /\ (Fulfilling(q) /\ runs[q].lock_age > LOCK_TTL)
           => /\ runs[q].result # "AlreadyInProgress"
              /\ runs[q].pc \notin {"clear_stale", "set_generating"} => runs[q].acquired
              /\ (runs[q].pc = "done" /\ runs[q].result # "ErrorReply")
                 => runs[q].generated
        /\ (Fulfilling(q) /\ runs[q].result = "AlreadyInProgress")
           => (runs[q].lock_age >= 0 /\ runs[q].lock_age <= LOCK_TTL)

C5_Witness ==
    \E q \in Workers :
        /\ Fulfilling(q) /\ runs[q].lock_age > LOCK_TTL
        /\ runs[q].pc = "done" /\ runs[q].result = "Success"

(* C6: a run that ends because the generator failed has released the       *)
(* lease of its (user, type).                                              *)
C6_GeneratorFailureReleasesLease ==
    \A p \in Workers :
        (Fulfilling(p) /\ runs[p].result = "GenerationFailed") => ~LeaseLeft(p)

(* C7: a run that fails before the persistence step has changed neither    *)
(* purchased_reports nor a report record nor the staged context.           *)
C7_FailureBeforePersistChangesNothing ==
    \A p \in Workers :
        ( /\ Fulfilling(p) /\ runs[p].pc = "done" /\ ~runs[p].persisted
          /\ runs[p].result \in {"GenerationFailed", "ErrorReply"} )
        => LifecycleChanges(p) = {}

(* C8: a run for a type that requires input, started with no staged        *)
(* context, calls no generator, changes neither purchased_reports nor a    *)
(* report record, and leaves no lease behind when it has returned.         *)
C8_MissingContextNoWrites ==
    \A p \in Workers :
        ( /\ runs[p].handler \in {"payment", "api_generate"} /\ runs[p].pc # "idle"
          /\ InfoFlag(REPORT_INFO, runs[p].report_id, "requires_input")
          /\ ~runs[p].staged )
        => /\ ~runs[p].generated
           /\ LifecycleChanges(p) = {}
           /\ runs[p].pc = "done" => ~LeaseLeft(p)

(* C9: a run for a report type that is not in the catalog ends with        *)
(* NotFound, takes no lease, calls no generator and changes no record.     *)
C9_UnknownTypeNotFound ==
    \A p \in Workers :
        (Fulfilling(p) /\ runs[p].report_id \notin KnownReports)
        => /\ ~runs[p].acquired /\ ~runs[p].generated
           /\ LifecycleChanges(p) = {}
           /\ runs[p].pc = "done" => runs[p].result = "NotFound"

(* C10: the step of a run that persists an instance with id i leaves i in  *)
(* the listing of (user, type), and the record read back under i has the   *)
(* generated content and the context it was saved with.                    *)
InstanceReadsBack(rt, r, instance_id) ==
    LET listed == get_report_instances(rt, r.telegram_id, r.report_id)
        record == get_report_instance(rt, r.telegram_id, r.report_id, instance_id)
    IN  /\ \E k \in 1..Len(listed) : listed[k].instance_id = instance_id
        /\ ~IsNone(record)
        /\ Val(record).content = Val(r.content)
        /\ Val(record).context = r.context

C10_SavedInstanceReadsBack ==
    [][ \A p \in Workers :
          ( /\ runs[p].pc = "save" /\ IsMulti(runs[p])
            /\ runs'[p].persisted )
          => InstanceReadsBack(reports_table', runs[p], Val(runs'[p].instance_id)) ]_vars

C10_Witness ==
    \E p \in Workers :
        /\ Fulfilling(p) /\ runs[p].persisted /\ IsMulti(runs[p])
        /\ runs[p].context # EmptyDict
        /\ ~IsNone(runs[p].instance_id)
        /\ InstanceReadsBack(reports_table, runs[p], Val(runs[p].instance_id))

(* The staged context of the run's (user, type), as the table holds it *)
PendingOf(rt, r) == get_item(rt, <<r.telegram_id, SK_PENDING(r.report_id)>>)

PendingKey(r) == <<"reports", <<r.telegram_id, SK_PENDING(r.report_id)>>>>

(* C11: when a FulfillReport run of a multi-instance type has returned     *)
(* with success, no pending context is staged for its (user, type).        *)
C11_NoPendingAfterSuccess ==
    \A p \in Workers :
        ( /\ Fulfilling(p) /\ IsMulti(runs[p])
          /\ runs[p].pc = "done" /\ runs[p].result = "Success" )
        => IsNone(PendingOf(reports_table, runs[p]))

(* C12: a FulfillReport run has deleted the pending context of its         *)
(* (user, type) only if it has persisted the generated content before.     *)
C12_PendingDeletedOnlyAfterPersist ==
    \A p \in Workers :
        (Fulfilling(p) /\ PendingKey(runs[p]) \in runs[p].changed)
        => runs[p].persisted

(* C13: every step that saves an instance adds exactly one instance to     *)
(* those stored for the (user, type) and leaves the earlier ones as they   *)
(* were.                                                                   *)
C13_SaveInstanceAddsOne ==
    [][ \A p \in Workers :
          ( /\ runs[p].pc = "save" /\ IsMulti(runs[p])
            /\ runs'[p].persisted )
          => LET u == runs[p].telegram_id
                 t == runs[p].report_id
                 before == QueryInstances(reports_table, u, t)
                 after == QueryInstances(reports_table', u, t)
             IN  /\ before \subseteq after
                 /\ Cardinality(after) = Cardinality(before) + 1 ]_vars

(* The contents stored under any report key of (u, t) *)
StoredContents(rt, u, t) ==
    {rt[k].content : k \in {q \in DOMAIN rt :
                              /\ q[1] = u /\ q[2][1] = "REPORT" /\ q[2][2] = t}}

(* C14: the step of a run that saves a single-instance report leaves       *)
(* get_report returning the content of that run, and no earlier content of *)
(* the (user, type) stored anywhere.                                       *)
C14_LatestSingleOnly ==
    [][ \A p \in Workers :
          ( /\ runs[p].pc = "save" /\ ~IsMulti(runs[p])
            /\ runs'[p].persisted )
          => LET u == runs[p].telegram_id
                 t == runs[p].report_id
             IN  /\ get_report(reports_table', u, t) = runs[p].content
                 /\ StoredContents(reports_table', u, t) = {Val(runs[p].content)} ]_vars

(* A second generation has just replaced the report of a first one *)
C14_Witness ==
    \E p, q \in Workers :
        /\ p # q /\ SameKey(p, q) /\ runs[p].report_id = "full_portrait"
        /\ runs[q].pc = "done" /\ runs[q].result = "Success" /\ runs[q].persisted
        /\ InFlight(runs[p]) /\ runs[p].persisted
        /\ runs[p].lock_seen = "absent"
        /\ get_report(reports_table, 1, "full_portrait") = runs[p].content

(* The call the store has just served, in a step of StoreSpec *)
JustCalled(method) ==
    /\ starts' = starts + 1
    /\ runs'["w1"].handler = method

(* The table is the same but for the item under key *)
SameButFor(rt, rt2, key) ==
    /\ DOMAIN rt \ {key} = DOMAIN rt2 \ {key}
    /\ \A k \in DOMAIN rt \ {key} : rt2[k] = rt[k]

Listed(rt, u, t) ==
    {get_report_instances(rt, u, t)[k].instance_id :
        k \in 1..Len(get_report_instances(rt, u, t))}

(* C15: delete_report_instance(u, t, i) leaves i out of the listing of     *)
(* (u, t) and changes nothing else: the other instances of t, the records  *)
(* of other types, the pending contexts, the leases and the items of other *)
(* users are as before.                                                    *)
C15_DeleteInstanceFrame ==
    [][ JustCalled("delete_report_instance")
        => LET r == runs'["w1"]
               i == Val(r.instance_id)
           IN  /\ SameButFor(reports_table, reports_table',
                             <<r.telegram_id, SK_INSTANCE(r.report_id, i)>>)
               /\ Listed(reports_table', r.telegram_id, r.report_id)
                    = Listed(reports_table, r.telegram_id, r.report_id) \ {i}
               /\ users_table' = users_table ]_vars

(* A stored instance was deleted and its sibling is still listed *)
C15_Witness ==
    LET r == runs["w1"]
    IN  /\ r.handler = "delete_report_instance" /\ r.persisted
        /\ r.telegram_id = 1 /\ r.report_id = "name_selection"
        /\ Cardinality(Listed(reports_table, 1, "name_selection")) = 1
        /\ Val(r.instance_id) \notin Listed(reports_table, 1, "name_selection")

(* C17: save_pending_report_data(u, t, c) leaves exactly c under the one   *)
(* key of (u, t), whatever was staged there before, and touches no other   *)
(* item: the entry is replaced, not merged, and saving c again gives the   *)
(* same entry.                                                             *)
C17_PendingSaveOverwrites ==
    [][ JustCalled("save_pending_report_data")
        => LET r == runs'["w1"]
               key == <<r.telegram_id, SK_PENDING(r.report_id)>>
           IN  /\ SameButFor(reports_table, reports_table', key)
               /\ key \in DOMAIN reports_table'
               /\ reports_table'[key] = [data |-> r.context, created_at |-> now]
               /\ get_pending_report_data(reports_table', r.telegram_id, r.report_id)
                    = Some(r.context)
               /\ Cardinality({k \in DOMAIN reports_table' :
                                 k[1] = r.telegram_id /\ k[2][1] = "PENDING"
                                 /\ k[2][2] = r.report_id}) = 1 ]_vars

(* A context with a gender was replaced by one without *)
C17_Witness ==
    LET r == runs["w1"]
    IN  /\ r.handler = "save_pending_report_data"
        /\ r.pending_data = Some(NameContext("child", Some("male")))
        /\ r.context = NameContext("business", None)
        /\ get_pending_report_data(reports_table, r.telegram_id, r.report_id)
             = Some(r.context)

(* The context map staged under (u, t), read from the item itself *)
StagedData(rt, u, t) ==
    IF <<u, SK_PENDING(t)>> \in DOMAIN rt
    THEN Some(rt[<<u, SK_PENDING(t)>>].data) ELSE None

(* C16: the end of a collection flow stages exactly the map it built; the  *)
(* purchase confirmation reads exactly the map that is staged; and between *)
(* the two the staged map is replaced only by the end of another           *)
(* collection flow for the same (user, type).                              *)
C16_StagedContextReadBack ==
    [][ /\ \A p \in Workers :
             LET r == runs[p]
             IN  /\ (r.pc = "fin_save_pending" /\ runs'[p].pc # "fin_save_pending")
                    => StagedData(reports_table', r.telegram_id, r.report_id)
                         = Some(r.context)
                 /\ (r.pc = "pay_get_pending" /\ runs'[p].pc # "pay_get_pending")
                    => runs'[p].pending_data
                         = StagedData(reports_table, r.telegram_id, r.report_id)
        /\ \A u \in Users, t \in KnownReports :
             ( /\ ~IsNone(StagedData(reports_table', u, t))
               /\ StagedData(reports_table', u, t) # StagedData(reports_table, u, t) )
             => \E p \in Workers :
                  /\ runs[p].pc = "fin_save_pending" /\ runs'[p].pc # "fin_save_pending"
                  /\ runs[p].telegram_id = u /\ runs[p].report_id = t ]_vars

(* A purchase confirmation has read the map with two fields that the       *)
(* collection flow staged                                                  *)
C16_Witness ==
    \E p, q \in Workers :
        /\ p # q /\ SameKey(p, q)
        /\ runs[q].handler = "finalize" /\ runs[q].result = "Invoice"
        /\ runs[p].handler = "payment" /\ runs[p].pc = "generate"
        /\ runs[p].pending_data = Some(NameContext("child", Some("male")))

(* The handler invocation that starts in this step took, as the answer to *)
(* the purpose question, a value that is none of the offered variants      *)
TookInvalidPurpose(p) ==
    /\ starts' = starts + 1
    /\ runs'[p] # runs[p]
    /\ runs'[p].handler = "finalize"
    /\ DictGet(runs'[p].context, "purpose", "child") \notin OfferedPurposes

(* C18: a reply to the purpose question that is none of the offered       *)
(* variants leaves the collector at the same node with the same answers,   *)
(* writes nothing, and the handler returns without going on to stage a     *)
(* context.                                                                *)
C18_InvalidReplyChangesNothing ==
    [][ \A p \in Workers :
          TookInvalidPurpose(p)
          => /\ fsm' = fsm
             /\ reports_table' = reports_table
             /\ runs'[p].pc = "done" ]_vars

(* Run p takes the step that ends its collection flow *)
EndsCollection(p) ==
    runs[p].pc = "fin_save_pending" /\ runs'[p].pc # "fin_save_pending"

(* C19: a pending context is written only by the step that ends a          *)
(* collection flow for its (user, type); that step writes this one item,   *)
(* with the map the flow built, and leaves the collector's state cleared.  *)
(* A step of a flow that stops at a node before the end writes nothing to  *)
(* the tables.                                                             *)
C19_PendingWrittenAtEndOfFlow ==
    [][ /\ \A u \in Users, t \in KnownReports \cup InReportIds :
             LET key == <<u, SK_PENDING(t)>>
             IN  ( /\ key \in DOMAIN reports_table'
                   /\ get_item(reports_table', key) # get_item(reports_table, key) )
                 => \E p \in Workers :
                      /\ EndsCollection(p)
                      /\ runs[p].telegram_id = u /\ runs[p].report_id = t
                      /\ reports_table'[key].data = runs[p].context
                      /\ SameButFor(reports_table, reports_table', key)
                      /\ IsNone(fsm'[u])
        /\ \A p \in Workers :
             ( /\ starts' = starts + 1 /\ runs'[p] # runs[p]
               /\ runs'[p].result \in {"Collecting", "AskGender"} )
             => /\ reports_table' = reports_table
                /\ users_table' = users_table ]_vars

(* A flow has ended with the invoice: its map is staged and the            *)
(* collector's state is cleared                                            *)
C19_Witness ==
    \E p \in Workers :
        /\ runs[p].handler = "finalize" /\ runs[p].result = "Invoice"
        /\ runs[p].staged
        /\ StagedData(reports_table, 1, "name_selection")
             = Some(NameContext("child", Some("male")))
        /\ IsNone(fsm[1])

LockKey(r) == <<"reports", <<r.telegram_id, SK_LOCK(r.report_id)>>>>

(* C20: a FulfillReport run that returned AlreadyInProgress has changed no *)
(* report record, no pending context, no purchased_reports and not the     *)
(* lease of its (user, type).                                              *)
C20_RejectedRunChangesNothing ==
    \A q \in Workers :
        (Fulfilling(q) /\ runs[q].result = "AlreadyInProgress")
        => /\ LifecycleChanges(q) = {}
           /\ LockKey(runs[q]) \notin runs[q].changed

(* C21: the step with which a FulfillReport run that had taken the lease   *)
(* returns with success leaves no lease for its (user, type).              *)
C21_SuccessReleasesLease ==
    [][ \A p \in Workers :
          ( /\ runs[p].pc # "done" /\ runs'[p].pc = "done"
            /\ runs'[p].handler \in FulfillHandlers
            /\ runs'[p].acquired /\ runs'[p].result = "Success" )
          => <<runs'[p].telegram_id, <<"LOCK", runs'[p].report_id>>>>
                \notin DOMAIN reports_table' ]_vars

(* After a run returned with success, a second run for the same (user,     *)
(* type) found no lease and took it                                        *)
C21_Witness ==
    \E p, q \in Workers :
        /\ p # q /\ SameKey(p, q)
        /\ runs[p].pc = "done" /\ runs[p].result = "Success" /\ runs[p].acquired
        /\ runs[p].lock_seen = "absent"
        /\ HoldsLease(q) /\ runs[q].lock_seen = "absent"
        /\ HasRecord(reports_table, runs[p].telegram_id, runs[p].report_id)

(* C22: a lease is held exactly while its age is below the TTL: a run that *)
(* read a lease is refused when the age it computed is less than 120 s and *)
(* reclaims the lease when the age is 120 s or more.                       *)
C22_HeldWhileYoungerThanTTL ==
    \A q \in Workers :
        (runs[q].handler \in FulfillHandlers /\ runs[q].lock_age >= 0)
        => /\ (runs[q].lock_seen = "live")  <=> (runs[q].lock_age < LOCK_TTL)
           /\ (runs[q].lock_seen = "stale") <=> (runs[q].lock_age >= LOCK_TTL)

(* C23: for every user and every catalog type t the prefix query on        *)
(* REPORT#{t}# selects exactly the instance records of t of that user: no  *)
(* single record, no instance of another type or user, no PENDING#, LOCK#  *)
(* or COMPAT# record, and every instance of t; the count agrees.           *)
InstanceKeysOf(rt, telegram_id, report_type) ==
    {k \in DOMAIN rt : /\ k[1] = telegram_id
                       /\ Len(k[2]) = 3
                       /\ k[2][1] = "REPORT" /\ k[2][2] = report_type}

C23_PrefixQueryExact ==
    \A u \in Users : \A t \in DOMAIN AVAILABLE_REPORTS :
        /\ QueryKeys(reports_table, u, t) = InstanceKeysOf(reports_table, u, t)
        /\ get_report_instance_count(reports_table, u, t)
              = Cardinality(InstanceKeysOf(reports_table, u, t))

(* The table holds an instance of name_selection next to the single record *)
(* of the same type and a record of another family, and the query selects  *)
(* the one instance                                                        *)
C23_Witness ==
    /\ <<1, <<"REPORT", "name_selection">>>> \in DOMAIN reports_table
    /\ \E i \in InstanceIds :
          QueryKeys(reports_table, 1, "name_selection")
              = {<<1, <<"REPORT", "name_selection", i>>>>}
    /\ \E k \in DOMAIN reports_table :
          k[1] = 1 /\ k[2][1] \in {"PENDING", "LOCK", "COMPAT"}

(* C24: the listing of a (user, multi-instance type) has one entry per     *)
(* stored instance, each with the instance's id, context and created_at    *)
(* and no content, ordered from newest to oldest; reading the type without *)
(* an instance id returns the content of a most recently created instance. *)
C24_ListingNewestFirst ==
    \A u \in Users : \A t \in MULTI_INSTANCE_REPORTS :
        LET K == InstanceKeysOf(reports_table, u, t)
            l == get_report_instances(reports_table, u, t)
        IN  /\ Len(l) = Cardinality(K)
            /\ \A k \in K : \E i \in 1..Len(l) : l[i] = [ instance_id |-> k[2][3],
                         context     |-> reports_table[k].context,
                         created_at  |-> reports_table[k].created_at ]
            /\ \A i \in 1..Len(l) : DOMAIN l[i] = {"instance_id", "context", "created_at"}
            /\ \A i, j \in 1..Len(l) : i < j => l[i].created_at >= l[j].created_at
            /\ IF K = {} THEN IsNone(get_report(reports_table, u, t))
               ELSE \E k \in K :
                      /\ \A k2 \in K : reports_table[k].created_at
                                          >= reports_table[k2].created_at
                      /\ get_report(reports_table, u, t) = Some(reports_table[k].content)

(* Two instances of name_selection saved at different times: the one with  *)
(* the smaller id is the newer, it is listed first and read by default     *)
C24_Witness ==
    LET l == get_report_instances(reports_table, 1, "name_selection")
    IN  /\ Len(l) = 2
        /\ l[1].instance_id = "id_a" /\ l[2].instance_id = "id_b"
        /\ l[1].created_at > l[2].created_at
        /\ get_report(reports_table, 1, "name_selection")
              = Some(reports_table[<<1, <<"REPORT", "name_selection", "id_a">>>>].content)

(* C25: the bot catalog, the Mini App catalog and the store's set give the *)
(* same multi_instance flag for every catalog type; no single record       *)
(* REPORT#{type} exists for a multi-instance type and no instance record   *)
(* for a single-instance type; and the read of a (user, type) finds what   *)
(* was written for it.                                                     *)
C25_StorageFormFollowsFlag ==
    /\ DOMAIN REPORT_INFO = DOMAIN AVAILABLE_REPORTS
    /\ MULTI_INSTANCE_REPORTS \subseteq DOMAIN REPORT_INFO
    /\ \A t \in DOMAIN REPORT_INFO :
          /\ REPORT_INFO[t].multi_instance = AVAILABLE_REPORTS[t].multi_instance
          /\ REPORT_INFO[t].multi_instance = (t \in MULTI_INSTANCE_REPORTS)
    /\ \A k \in DOMAIN reports_table :
          k[2][1] = "REPORT"
          => /\ Len(k[2]) = 2 => k[2][2] \notin MULTI_INSTANCE_REPORTS
             /\ Len(k[2]) = 3 => k[2][2] \in MULTI_INSTANCE_REPORTS
    /\ \A u \in Users : \A t \in DOMAIN REPORT_INFO :
          (\E k \in DOMAIN reports_table :
              k[1] = u /\ k[2][1] = "REPORT" /\ k[2][2] = t)
          => ~IsNone(get_report(reports_table, u, t))

(* A user holds a single-instance report and an instance of a              *)
(* multi-instance type, each written by a run and each found by the read   *)
C25_Witness ==
    \E p, q \in Workers :
        /\ runs[p].persisted /\ runs[p].report_id = "full_portrait"
        /\ runs[q].persisted /\ runs[q].report_id = "name_selection"
        /\ runs[p].telegram_id = runs[q].telegram_id
        /\ <<runs[p].telegram_id, <<"REPORT", "full_portrait">>>> \in DOMAIN reports_table
        /\ \E i \in InstanceIds :
              <<runs[q].telegram_id, <<"REPORT", "name_selection", i>>>>
                  \in DOMAIN reports_table
        /\ ~IsNone(get_report(reports_table, runs[p].telegram_id, "full_portrait"))
        /\ ~IsNone(get_report(reports_table, runs[q].telegram_id, "name_selection"))

(* C26: a single-instance report is never deleted: a record that exists    *)
(* for a (user, single-instance type) exists after every step, and a       *)
(* delete request for a single-instance type is refused.                   *)
C26_SingleRecordNeverDeleted ==
    [][ /\ \A u \in Users : \A t \in DOMAIN AVAILABLE_REPORTS \ MULTI_INSTANCE_REPORTS :
              <<u, <<"REPORT", t>>>> \in DOMAIN reports_table
              => <<u, <<"REPORT", t>>>> \in DOMAIN reports_table'
        /\ \A p \in Workers :
              ( /\ runs'[p] # runs[p] /\ runs'[p].handler = "api_delete"
                /\ runs'[p].report_id
                      \in DOMAIN AVAILABLE_REPORTS \ MULTI_INSTANCE_REPORTS )
              => runs'[p].result = "BadRequest" /\ reports_table' = reports_table
      ]_vars

(* The user holds full_portrait and asked to delete it: the request was    *)
(* refused and the record is there                                         *)
C26_Witness ==
    \E p, q \in Workers :
        /\ p # q
        /\ runs[p].handler = "api_delete" /\ runs[p].report_id = "full_portrait"
        /\ runs[p].pc = "done" /\ runs[p].result = "BadRequest"
        /\ runs[q].report_id = "full_portrait" /\ runs[q].persisted
        /\ runs[q].pc = "done" /\ runs[q].result = "Success"
        /\ runs[q].telegram_id = runs[p].telegram_id
        /\ <<runs[p].telegram_id, <<"REPORT", "full_portrait">>>> \in DOMAIN reports_table

(* C27: a user's purchased_reports holds each report type at most once.    *)
C27_PurchasedReportsNoDuplicates ==
    \A u \in Users :
        ~IsNone(users_table[u])
        => LET purchased == Val(users_table[u]).purchased_reports
           IN  \A i, j \in 1..Len(purchased) :
                   purchased[i] = purchased[j] => i = j

(* C28: the lease is scoped to one (user, type): a lock call for (u, t)    *)
(* changes no lease but the one of (u, t), and the check of (u, t) answers *)
(* "generating" only when a lease of (u, t) itself is in the table, so the *)
(* leases of the user's other types and of other users never refuse it.    *)
C28_LeaseScopedToUserAndType ==
    [][ LET call == runs'["w1"]
            own  == <<call.telegram_id, <<"LOCK", call.report_id>>>>
            leases == {k \in DOMAIN reports_table \cup DOMAIN reports_table' :
                          k[2][1] = "LOCK"}
        IN  ( /\ starts' = starts + 1
              /\ call.handler \in {"is_report_generating", "set_report_generating",
                                   "clear_report_generating"} )
            => /\ \A k \in leases \ {own} :
                    /\ k \in DOMAIN reports_table /\ k \in DOMAIN reports_table'
                    /\ reports_table'[k] = reports_table[k]
               /\ (call.handler = "is_report_generating" /\ call.result = "True")
                    => own \in DOMAIN reports_table
      ]_vars

(* With a lease held for another type of the user and one for the same     *)
(* type of another user, the check of (1, year_forecast) answered that     *)
(* nothing is being generated, and both leases are still there             *)
C28_Witness ==
    /\ runs["w1"].handler = "is_report_generating"
    /\ runs["w1"].telegram_id = 1 /\ runs["w1"].report_id = "year_forecast"
    /\ runs["w1"].result = "False"
    /\ <<1, <<"LOCK", "name_selection">>>> \in DOMAIN reports_table
    /\ <<2, <<"LOCK", "name_selection">>>> \in DOMAIN reports_table
    /\ ~IsStale(reports_table[<<1, <<"LOCK", "name_selection">>>>], now)

(* C29: whenever the purchase confirmation of an issued invoice for a type *)
(* that requires input is processed, a pending context of the (user, type) *)
(* is staged: the payment run never takes the branch of the missing        *)
(* context.                                                                *)
C29_PaymentFindsPendingContext ==
    \A p \in Workers :
        ( /\ runs[p].handler = "payment" /\ runs[p].invoiced
          /\ InfoFlag(REPORT_INFO, runs[p].report_id, "requires_input")
          /\ runs[p].pc \in {"generate", "pay_else_clear"} )
        => /\ Truthy(runs[p].pending_data)
           /\ runs[p].pc = "generate"

(* C30: a live lease is deleted only by the run that created it: no step   *)
(* of a run deletes a lock item that is not stale, that the run did not    *)
(* write itself, and that another run wrote, after reclaiming a stale      *)
(* lease, and still holds.                                                 *)
DeletesLeaseOfAnother(p) ==
    LET k == <<runs[p].telegram_id, <<"LOCK", runs[p].report_id>>>>
    IN  /\ runs'[p] # runs[p]
        /\ Fulfilling(p)
        /\ k \in DOMAIN reports_table /\ k \notin DOMAIN reports_table'
        /\ ~IsStale(reports_table[k], now)
        /\ runs[p].acquired_at # reports_table[k].created_at
        /\ \E q \in Workers \ {p} :
              /\ HoldsLease(q) /\ SameKey(p, q)
              /\ runs[q].lock_seen = "stale"
              /\ runs[q].acquired_at = reports_table[k].created_at

C30_LiveLeaseDeletedOnlyByCreator ==
    [][ \A p \in Workers : ~DeletesLeaseOfAnother(p) ]_vars

(* C31: writes to the user item lose no update: after two runs for the     *)
(* same user have both ended with success, purchased_reports holds the     *)
(* type of each, and payment_history holds the payment of each run that    *)
(* was a purchase confirmation.                                            *)
C31_NoLostUserUpdates ==
    \A p, q \in Workers :
        ( /\ p # q
          /\ runs[p].pc = "done" /\ runs[p].result = "Success" /\ runs[p].granted
          /\ runs[q].pc = "done" /\ runs[q].result = "Success" /\ runs[q].granted
          /\ runs[p].handler \in FulfillHandlers /\ runs[q].handler \in FulfillHandlers
          /\ runs[p].telegram_id = runs[q].telegram_id )
        => LET user == Val(users_table[runs[p].telegram_id])
           IN  /\ InSeq(runs[p].report_id, user.purchased_reports)
               /\ InSeq(runs[q].report_id, user.purchased_reports)
               /\ (runs[p].handler = "payment" /\ runs[q].handler = "payment")
                    => Len(user.payment_history) >= 2

(* C32: every confirmed report purchase is fulfilled: a purchase           *)
(* confirmation for a catalog type that has been processed to its end,     *)
(* with no generator or storage failure, has persisted a report and left   *)
(* no lease; it was not dropped because a generation started by another    *)
(* request was in flight.                                                  *)
C32_ConfirmedPurchaseFulfilled ==
    \A p \in Workers :
        ( /\ runs[p].handler = "payment" /\ runs[p].pc = "done"
          /\ runs[p].report_id \in KnownReports
          /\ runs[p].result \notin {"GenerationFailed", "StorageFailure", "ErrorReply"}
          /\ \A q \in Workers \ {p} : runs[q].handler # "payment" )
        => /\ runs[p].persisted
           /\ runs[p].result = "Success"

(* C33: the context stored with an instance of a multi-instance report is  *)
(* the parameters the run passed to the generator for it, at every entry   *)
(* point.                                                                  *)
C33_StoredContextIsGeneratorInput ==
    [][ \A p \in Workers :
          ( /\ runs[p].pc = "save" /\ runs'[p].persisted
            /\ ~IsNone(runs'[p].instance_id) )
          => reports_table'[<<runs[p].telegram_id,
                              <<"REPORT", runs[p].report_id,
                                Val(runs'[p].instance_id)>>>>].context
                = Val(runs[p].gen_args) ]_vars

(* C34: a purchase confirmation delivered twice appends one payment        *)
(* record: when two runs have processed the confirmation of one user with  *)
(* one payload, payment_history holds that payload at most once.           *)
C34_RedeliveryAppendsOnePayment ==
    \A p, q \in Workers :
        ( /\ p # q
          /\ runs[p].handler = "payment" /\ runs[q].handler = "payment"
          /\ runs[p].report_id \in KnownReports
          /\ SameKey(p, q) )
        => LET history == Val(users_table[runs[p].telegram_id]).payment_history
           IN  Cardinality({i \in 1..Len(history) :
                               history[i] = <<"report", runs[p].report_id>>}) <= 1

(* C35: a Mini App request to generate, read or delete a report of a       *)
(* catalog type by a user who has neither the type in purchased_reports    *)
(* nor an active PRO subscription is answered 403 and changes nothing.     *)

(* The request that run p starts in this step comes from a user without    *)
(* access to the catalog type it names                                     *)
StartsWithoutAccess(p) ==
    /\ starts' = starts + 1 /\ runs'[p] # runs[p]
    /\ runs'[p].handler \in {"api_generate", "api_get", "api_delete"}
    /\ runs'[p].report_id \in DOMAIN AVAILABLE_REPORTS
    /\ ~IsNone(users_table[runs'[p].telegram_id])
    /\ LET user == Val(users_table[runs'[p].telegram_id])
       IN  /\ ~InSeq(runs'[p].report_id, user.purchased_reports)
           /\ ~(user.subscription_type = "pro" /\ is_premium(user, now))

C35_NoAccessIs403 ==
    [][ \A p \in Workers :
          StartsWithoutAccess(p)
          => /\ runs'[p].pc = "done" /\ runs'[p].result = "Forbidden"
             /\ users_table' = users_table /\ reports_table' = reports_table ]_vars

(* C35 as the code has it: the request is refused and changes nothing; the *)
(* answer is 400 when a generation is asked by a user who is not onboarded *)
(* and when a delete names a single-instance type, and 403 otherwise.      *)
C35_NoAccessIsRefused ==
    [][ \A p \in Workers :
          StartsWithoutAccess(p)
          => /\ runs'[p].pc = "done"
             /\ runs'[p].result =
                  IF /\ runs'[p].handler = "api_generate"
                     /\ ~Val(users_table[runs'[p].telegram_id]).onboarded
                  THEN "NotOnboarded"
                  ELSE IF /\ runs'[p].handler = "api_delete"
                          /\ ~AVAILABLE_REPORTS[runs'[p].report_id].multi_instance
                  THEN "BadRequest"
                  ELSE "Forbidden"
             /\ users_table' = users_table /\ reports_table' = reports_table ]_vars

(* A user without access asked for a generation and then for the content  *)
(* of name_selection: both requests were answered 403, and there is no    *)
(* lease and no report of the type                                         *)
C35_Witness ==
    \E p, q \in Workers :
        /\ runs[p].handler = "api_generate" /\ runs[q].handler = "api_get"
        /\ runs[p].pc = "done" /\ runs[p].result = "Forbidden"
        /\ runs[q].pc = "done" /\ runs[q].result = "Forbidden"
        /\ runs[p].report_id = "name_selection" /\ SameKey(p, q)
        /\ LET user == Val(users_table[runs[p].telegram_id])
           IN  /\ ~InSeq("name_selection", user.purchased_reports)
               /\ ~(user.subscription_type = "pro" /\ is_premium(user, now))
        /\ ~HasRecord(reports_table, runs[p].telegram_id, "name_selection")
        /\ IsNone(LockItem(reports_table, runs[p].telegram_id, "name_selection"))

(* C36: the daily question limit is a limit per day: a user without a      *)
(* subscription and without bonus questions is refused a question only     *)
(* when the questions counted against them were asked today.               *)
C36_QuestionLimitResetsNextDay ==
    \A u \in ActiveUsers :
        ( /\ runs["w1"].handler = "handle_question"
          /\ runs["w1"].telegram_id = u
          /\ runs["w1"].result = "LimitReached" )
        => Val(users_table[u]).questions_today_reset
              = Some(runs["w1"].at \div SECONDS_PER_DAY)

(* C37: the weekly compatibility limit is a limit per week: a user without *)
(* a subscription is refused a compatibility check only when fewer than 7  *)
(* days have passed since the counter's last reset.                        *)
C37_CompatibilityLimitResetsAfterWeek ==
    \A u \in ActiveUsers :
        ( /\ runs["w1"].handler = "cmd_compatibility"
          /\ runs["w1"].telegram_id = u
          /\ runs["w1"].result = "LimitReached" )
        => LET user == Val(users_table[u])
           IN  /\ ~IsNone(user.compatibility_week_reset)
               /\ (runs["w1"].at \div SECONDS_PER_DAY)
                     - Val(user.compatibility_week_reset) < 7

====
